---- MODULE Spec2Model ----
(***************************************************************************)
(* Contingency-Comparator: the table differ (compare_tables), the          *)
(* sheet-pair orchestration (compare_sheet_pair), the block extraction     *)
(* (extract_tables_from_sheet, load_workbook) of gui/program/              *)
(* excel_logic.py and of program.py, and the handlers open_workbook and    *)
(* do_compare of the two windows, gui/app.py and gui.py.                   *)
(*                                                                         *)
(* Numbers are fixed-point in tenths (950 is 95.0, 975 is 97.5); every     *)
(* percent of the model is a multiple of 0.5, so float subtraction is      *)
(* exact on them.  A float is the record [nan, inf, x]: NaN is nan = TRUE, *)
(* an infinity is inf = 1 or -1.                                           *)
(* A raw cell is [t, n, s]: empty (NaN / None), a number n, or a text s.   *)
(* A text, in a cell or as a join key, is the sequence of its characters.  *)
(***************************************************************************)
EXTENDS Integers, Sequences, FiniteSets, TLC

VARIABLES table1, table2, merged, pc, join_order,
          workbook_data, sheet_left, sheet_right, results,
          grid, tables, app, raw_sheets, sheet_names, console, tabs

vars == <<table1, table2, merged, pc, join_order,
          workbook_data, sheet_left, sheet_right, results,
          grid, tables, app, raw_sheets, sheet_names, console, tabs>>

\* the state of reading a workbook: the grid of one sheet and the tables
\* found on it, the application that runs, the sheets last read, the sheet
\* names offered for selection, the lines printed, and the rows shown on
\* the tabs of the window
loadVars == <<grid, tables, app, raw_sheets, sheet_names, console, tabs>>

\* total number of rows of the two tables handed to compare_tables
MaxRows == 3

\* length of the cell texts handed to the numeric conversion
MaxTextLen == 3

TABLE_NAMES == <<"ACCA Long Term", "ACCA", "DCwAC">>

Range(s) == {s[i] : i \in 1..Len(s)}

SeqsUpTo(S, n) == UNION {[1..m -> S] : m \in 0..n}

NoTables == [k \in {} |-> <<>>]

NoIndex == [s \in {} |-> NoTables]

\* no workbook has been read
\* the tabs of a window, one for each name, without rows
NoRows == [tname \in Range(TABLE_NAMES) |-> <<>>]

NothingRead ==
    /\ grid = <<>>
    /\ tables = NoTables
    /\ app = ""
    /\ raw_sheets = NoIndex
    /\ sheet_names = <<>>
    /\ console = <<>>
    /\ tabs = NoRows

Front(s) == SubSeq(s, 1, Len(s) - 1)

Last(s) == s[Len(s)]

----------------------------------------------------------------------------
(* floats and raw cells *)

\* a float: NaN, plus or minus infinity (inf = 1 or -1), or the number x
NaN == [nan |-> TRUE, inf |-> 0, x |-> 0]

Flt(n) == [nan |-> FALSE, inf |-> 0, x |-> n]

Infinity(sign) == [nan |-> FALSE, inf |-> sign, x |-> 0]

isnan(f) == f.nan

\* mutant: an absent percent counts as zero (fillna(0) before subtracting)
FloatSubZero(a, b) == Flt((IF b.nan THEN 0 ELSE 0 - b.x) + (IF a.nan THEN 0 ELSE a.x))

\* merged["percent_2"] - merged["percent_1"]: IEEE subtraction, NaN absorbs
\* and so does the difference of two infinities of one sign
FloatSub(a, b) ==
    IF a.nan \/ b.nan THEN NaN
    ELSE IF a.inf = 0 /\ b.inf = 0 THEN Flt(a.x - b.x)
    ELSE IF a.inf = b.inf THEN NaN
    ELSE IF a.inf # 0 THEN a
    ELSE Infinity(0 - b.inf)

\* a < b on two floats that are not NaN
FloatLess(a, b) == IF a.inf # b.inf THEN a.inf < b.inf ELSE a.inf = 0 /\ a.x < b.x

Empty == [t |-> "empty", n |-> 0, s |-> <<>>]

Num(n) == [t |-> "num", n |-> n, s |-> <<>>]

Text(s) == [t |-> "text", n |-> 0, s |-> s]

Digits == <<"0", "1", "2", "3", "4", "5", "6", "7", "8", "9">>

IsDigit(c) == \E i \in 1..Len(Digits) : Digits[i] = c

DigitVal(c) == (CHOOSE i \in 1..Len(Digits) : Digits[i] = c) - 1

RECURSIVE lstrip(_)
lstrip(s) == IF s # <<>> /\ Head(s) = " " THEN lstrip(Tail(s)) ELSE s

RECURSIVE rstrip(_)
rstrip(s) == IF s # <<>> /\ Last(s) = " " THEN rstrip(Front(s)) ELSE s

\* str.strip()
strip(s) == rstrip(lstrip(s))

\* str.replace("%", ""): every occurrence is removed
replace_percent(s) == SelectSeq(s, LAMBDA c : c # "%")

RECURSIVE DigitsValue(_)
DigitsValue(s) == IF s = <<>> THEN 0 ELSE DigitsValue(Front(s)) * 10 + DigitVal(Last(s))

AllDigits(s) == \A i \in 1..Len(s) : IsDigit(s[i])

DotAt(s) == {i \in 1..Len(s) : s[i] = "."}

\* float(s) on the decimal texts of the model: digits, optionally a point and
\* at most one fraction digit; anything else raises ValueError (NaN here)
ParseDecimal(s) ==
    IF DotAt(s) = {}
    THEN IF s # <<>> /\ AllDigits(s) THEN Flt(DigitsValue(s) * 10) ELSE NaN
    ELSE LET d == CHOOSE i \in DotAt(s) : TRUE
             ip == SubSeq(s, 1, d - 1)
             fp == SubSeq(s, d + 1, Len(s))
         IN IF Cardinality(DotAt(s)) = 1 /\ AllDigits(ip) /\ AllDigits(fp)
               /\ Len(fp) <= 1 /\ Len(ip) + Len(fp) >= 1
            THEN Flt(DigitsValue(ip) * 10 + DigitsValue(fp))
            ELSE NaN

InfinityWords == {<<"i", "n", "f">>, <<"i", "n", "f", "i", "n", "i", "t", "y">>}

\* the character is the lower-case letter, in either case
SameLetter(c, l) ==
    c = l \/ <<l, c>> \in {<<"i", "I">>, <<"n", "N">>, <<"f", "F">>, <<"t", "T">>, <<"y", "Y">>}

IsInfinityWord(s) ==
    \E w \in InfinityWords : Len(s) = Len(w) /\ \A i \in 1..Len(w) : SameLetter(s[i], w[i])

\* float(s) ignores leading and trailing whitespace, and reads "inf" and
\* "infinity", in any case and with a sign, as an infinity
ParseFloat(s) ==
    LET t == strip(s)
        signed == t # <<>> /\ Head(t) \in {"+", "-"}
        word == IF signed THEN Tail(t) ELSE t
    IN IF IsInfinityWord(word)
       THEN Infinity(IF signed /\ Head(t) = "-" THEN 0 - 1 ELSE 1)
       ELSE ParseDecimal(t)

\* _to_float_series._conv of excel_logic.py
conv(x) ==
    IF x.t = "empty" THEN NaN
    ELSE IF x.t = "num" THEN Flt(x.n)
    ELSE LET s == replace_percent(strip(x.s))
         IN IF s = <<>> THEN NaN ELSE ParseFloat(s)

----------------------------------------------------------------------------
(* compare_tables *)

ContA == <<"A">>

ContB == <<"B">>

Overload == <<"O", "v", "e", "r", "l", "o", "a", "d">>

Undervoltage == <<"U", "n", "d", "e", "r", "v", "o", "l", "t", "a", "g", "e">>

\* the universe of key texts, each list in Python's string order
SortedContingencies == <<ContA, ContB>>

SortedIssues == <<Overload, Undervoltage>>

\* the status labels, in Python's string order
SortedStatus == <<"both", "only in left", "only in right", "unknown">>

IndexIn(seq, v) == CHOOSE i \in 1..Len(seq) : seq[i] = v

\* str < str on two texts of one of the lists above
StrLess(seq, a, b) == IndexIn(seq, a) < IndexIn(seq, b)

KeyOf(row) == <<row.contingency, row.issue>>

\* tuple order of the join keys (contingency, issue)
KeyLess(k1, k2) ==
    \/ StrLess(SortedContingencies, k1[1], k2[1])
    \/ k1[1] = k2[1] /\ StrLess(SortedIssues, k1[2], k2[2])

\* left = pd.DataFrame({...}) of table1
LeftFrame(t) ==
    [i \in 1..Len(t) |->
        [contingency |-> t[i].Contingency,
         issue       |-> t[i].ResultingIssue,
         value       |-> conv(t[i].ContingencyValue),
         percent     |-> conv(t[i].PercentLoading)]]

\* right = pd.DataFrame({...}) of table2: the same conversion
RightFrame(t) == LeftFrame(t)

RECURSIVE Uniq(_)
Uniq(s) ==
    IF s = <<>> THEN <<>>
    ELSE LET r == Uniq(Front(s))
         IN IF Last(s) \in Range(r) THEN r ELSE Append(r, Last(s))

RECURSIVE InsertKey(_, _)
InsertKey(s, k) ==
    IF s = <<>> THEN <<k>>
    ELSE IF KeyLess(k, Head(s)) THEN <<k>> \o s
    ELSE <<Head(s)>> \o InsertKey(Tail(s), k)

RECURSIVE SortKeys(_)
SortKeys(s) == IF s = <<>> THEN <<>> ELSE InsertKey(SortKeys(Front(s)), Last(s))

\* The order in which pd.merge(how="outer", sort=False) enumerates the key
\* groups depends on the pandas build: by first appearance in left then
\* right (before 2.2), or in lexicographic key order (from 2.2 on).
JoinOrders == {"appearance", "lexicographic"}

\* mutant: how="left", the keys of the right table alone are lost
KeyGroupsLeft(left, right, order) ==
    LET ks == Uniq([i \in 1..Len(left) |-> KeyOf(left[i])])
    IN IF order = "appearance" THEN ks ELSE SortKeys(ks)

KeyGroups(left, right, order) ==
    LET ks == Uniq([i \in 1..Len(left) |-> KeyOf(left[i])]
                   \o [i \in 1..Len(right) |-> KeyOf(right[i])])
    IN IF order = "appearance" THEN ks ELSE SortKeys(ks)

JoinRow(k, l, r) ==
    [contingency |-> k[1], issue |-> k[2],
     value_1 |-> l.value, percent_1 |-> l.percent,
     value_2 |-> r.value, percent_2 |-> r.percent]

Missing == [value |-> NaN, percent |-> NaN]

RECURSIVE Cross(_, _, _)
Cross(k, ls, rs) ==
    IF ls = <<>> THEN <<>>
    ELSE [j \in 1..Len(rs) |-> JoinRow(k, Head(ls), rs[j])] \o Cross(k, Tail(ls), rs)

\* mutant: first match wins, later occurrences of a key are dropped
GroupRowsFirstMatch(k, left, right) ==
    LET ls == SelectSeq(left, LAMBDA r : KeyOf(r) = k)
        rs == SelectSeq(right, LAMBDA r : KeyOf(r) = k)
    IN <<JoinRow(k, IF ls = <<>> THEN Missing ELSE Head(ls),
                    IF rs = <<>> THEN Missing ELSE Head(rs))>>

\* mutant: the two sides are stacked (concat), never paired on the key
GroupRowsStacked(k, left, right) ==
    LET ls == SelectSeq(left, LAMBDA r : KeyOf(r) = k)
        rs == SelectSeq(right, LAMBDA r : KeyOf(r) = k)
    IN [i \in 1..Len(ls) |-> JoinRow(k, ls[i], Missing)]
       \o [j \in 1..Len(rs) |-> JoinRow(k, Missing, rs[j])]

\* the rows of one key group: every left occurrence with every right one
GroupRows(k, left, right) ==
    LET ls == SelectSeq(left, LAMBDA r : KeyOf(r) = k)
        rs == SelectSeq(right, LAMBDA r : KeyOf(r) = k)
    IN IF rs = <<>> THEN [i \in 1..Len(ls) |-> JoinRow(k, ls[i], Missing)]
       ELSE IF ls = <<>> THEN [j \in 1..Len(rs) |-> JoinRow(k, Missing, rs[j])]
       ELSE Cross(k, ls, rs)

RECURSIVE ConcatGroups(_, _, _)
ConcatGroups(ks, left, right) ==
    IF ks = <<>> THEN <<>>
    ELSE GroupRows(Head(ks), left, right) \o ConcatGroups(Tail(ks), left, right)

\* pd.merge(left, right, on=["contingency", "issue"], how="outer", sort=False)
merge(left, right, order) == ConcatGroups(KeyGroups(left, right, order), left, right)

\* compare_tables._status
status(row) ==
    LET in_left == ~isnan(row.percent_1)
        in_right == ~isnan(row.percent_2)
    IN IF in_left /\ in_right THEN "both"
       ELSE IF in_left THEN "only in left"
       ELSE IF in_right THEN "only in right"
       ELSE "unknown"

\* the columns added after the merge
Annotate(row, name1, name2) ==
    [contingency |-> row.contingency, issue |-> row.issue,
     value_1 |-> row.value_1, percent_1 |-> row.percent_1,
     value_2 |-> row.value_2, percent_2 |-> row.percent_2,
     sheet_left |-> name1, sheet_right |-> name2,
     delta_percent |-> FloatSub(row.percent_2, row.percent_1),
     status |-> status(row)]

\* mutant: ascending=[True, True], the smallest delta first
SortsBeforeAscending(a, b) ==
    \/ StrLess(SortedStatus, a.status, b.status)
    \/ /\ a.status = b.status
       /\ ~isnan(a.delta_percent)
       /\ (isnan(b.delta_percent) \/ FloatLess(a.delta_percent, b.delta_percent))

\* sort_values(by=["status", "delta_percent"], ascending=[True, False]):
\* a strictly precedes b; NaN deltas are last (na_position="last")
SortsBefore(a, b) ==
    \/ StrLess(SortedStatus, a.status, b.status)
    \/ /\ a.status = b.status
       /\ ~isnan(a.delta_percent)
       /\ (isnan(b.delta_percent) \/ FloatLess(b.delta_percent, a.delta_percent))

\* mutant: an unstable sort, a row goes before the earlier rows it ties with
RECURSIVE InsertRowUnstable(_, _)
InsertRowUnstable(s, r) ==
    IF s = <<>> THEN <<r>>
    ELSE IF ~SortsBefore(Head(s), r) THEN <<r>> \o s
    ELSE <<Head(s)>> \o InsertRowUnstable(Tail(s), r)

RECURSIVE InsertRow(_, _)
InsertRow(s, r) ==
    IF s = <<>> THEN <<r>>
    ELSE IF SortsBefore(r, Head(s)) THEN <<r>> \o s
    ELSE <<Head(s)>> \o InsertRow(Tail(s), r)

\* the lexsort of sort_values is stable: a row goes after every earlier row
\* it does not strictly precede
RECURSIVE sort_values(_)
sort_values(s) ==
    IF s = <<>> THEN <<>> ELSE InsertRow(sort_values(Front(s)), Last(s))

Joined(t1, t2, name1, name2, order) ==
    LET m == merge(LeftFrame(t1), RightFrame(t2), order)
    IN [i \in 1..Len(m) |-> Annotate(m[i], name1, name2)]

compare_tables(t1, t2, name1, name2, order) ==
    sort_values(Joined(t1, t2, name1, name2, order))

\* mutant: an unknown sheet name is answered with the tables of a sheet of
\* the index
SheetTablesOfAny(index, sheet) ==
    IF sheet \in DOMAIN index THEN index[sheet]
    ELSE IF DOMAIN index = {} THEN [k \in {} |-> <<>>]
    ELSE index[CHOOSE other \in DOMAIN index : TRUE]

\* compare_sheet_pair: only the kinds present on both sheets are compared;
\* dict.get(sheet, {}) makes an unknown sheet a sheet without tables
SheetTables(index, sheet) ==
    IF sheet \in DOMAIN index THEN index[sheet] ELSE [k \in {} |-> <<>>]

\* mutant: only the left table is tested for None, a kind missing on the
\* right sheet is compared against an empty table
compare_sheet_pair_left(index, left, right, order) ==
    LET tables_left == SheetTables(index, left)
        tables_right == SheetTables(index, right)
    IN [k \in {k \in Range(TABLE_NAMES) : k \in DOMAIN tables_left} |->
            compare_tables(tables_left[k],
                           IF k \in DOMAIN tables_right THEN tables_right[k] ELSE <<>>,
                           left, right, order)]

compare_sheet_pair(index, left, right, order) ==
    LET tables_left == SheetTables(index, left)
        tables_right == SheetTables(index, right)
        present == {k \in Range(TABLE_NAMES) :
                        k \in DOMAIN tables_left /\ k \in DOMAIN tables_right}
    IN [k \in present |->
            compare_tables(tables_left[k], tables_right[k], left, right, order)]

----------------------------------------------------------------------------
(* texts of the sheet grid *)

UpperCase == <<"A", "B", "C", "D", "E", "F", "G", "H", "I", "J", "K", "L", "M",
               "N", "O", "P", "Q", "R", "S", "T", "U", "V", "W", "X", "Y", "Z">>

LowerCase == <<"a", "b", "c", "d", "e", "f", "g", "h", "i", "j", "k", "l", "m",
               "n", "o", "p", "q", "r", "s", "t", "u", "v", "w", "x", "y", "z">>

\* the lower-case letter of every upper-case letter
ToLower ==
    [c \in Range(UpperCase) |-> LowerCase[CHOOSE i \in 1..Len(UpperCase) : UpperCase[i] = c]]

lower_char(c) == IF c \in DOMAIN ToLower THEN ToLower[c] ELSE c

\* str.lower()
lower(s) == [i \in 1..Len(s) |-> lower_char(s[i])]

\* sub in s
Contains(s, sub) ==
    \E i \in 0..(Len(s) - Len(sub)) : SubSeq(s, i + 1, i + Len(sub)) = sub

\* s.startswith(prefix)
StartsWith(s, prefix) ==
    Len(prefix) <= Len(s) /\ SubSeq(s, 1, Len(prefix)) = prefix

\* the spelling of the names of TABLE_NAMES
TableNameText ==
    [k \in Range(TABLE_NAMES) |->
        CASE k = "ACCA Long Term" ->
                <<"A", "C", "C", "A", " ", "L", "o", "n", "g", " ", "T", "e", "r", "m">>
          [] k = "ACCA" -> <<"A", "C", "C", "A">>
          [] k = "DCwAC" -> <<"D", "C", "w", "A", "C">>]

MarkerText == <<"c", "o", "n", "t", "i", "n", "g", "e", "n", "c", "y", " ",
                "e", "v", "e", "n", "t", "s">>

PercentText == <<"p", "e", "r", "c", "e", "n", "t">>

CaseText == <<"c", "a", "s", "e">>

NanText == <<"n", "a", "n">>

RECURSIVE NatDigits(_)
NatDigits(n) ==
    IF n < 10 THEN <<Digits[n + 1]>> ELSE Append(NatDigits(n \div 10), Digits[(n % 10) + 1])

\* str(x) of a numeric cell: read_excel hands a whole number over as an int
FormatNum(n) ==
    IF n % 10 = 0 THEN NatDigits(n \div 10)
    ELSE NatDigits(n \div 10) \o <<".">> \o <<Digits[(n % 10) + 1]>>

\* Series.astype(str) on one cell
astype_str(cell) ==
    IF cell.t = "empty" THEN NanText
    ELSE IF cell.t = "num" THEN FormatNum(cell.n)
    ELSE cell.s

isna(cell) == cell.t = "empty"

\* the smallest member of a set of columns; 0 is None
FirstOf(cols) == IF cols = {} THEN 0 ELSE CHOOSE c \in cols : \A d \in cols : c <= d

----------------------------------------------------------------------------
(* program.py: extract_tables_from_sheet, blocks under a marker row *)

\* read_excel(dtype=str): every cell is a text or NaN
ReadAsStr(df) ==
    [i \in 1..Len(df) |->
        [c \in 1..Len(df[i]) |->
            IF df[i][c].t = "num" THEN Text(FormatNum(df[i][c].n)) ELSE df[i][c]]]

\* mutant: only a row of NaN is blank, a row of blanks is data
row_is_blank_nan(df, idx) == \A c \in 1..Len(df[idx]) : df[idx][c].t = "empty"

row_is_blank(df, idx) ==
    \A c \in 1..Len(df[idx]) :
        \/ df[idx][c].t = "empty"
        \/ df[idx][c].t = "text" /\ strip(df[idx][c].s) = <<>>

IsMarkerRow(df, i) ==
    /\ Len(df[i]) >= 1
    /\ df[i][1].t = "text"
    /\ lower(strip(df[i][1].s)) = MarkerText

\* the kinds a cell names: text.lower() == candidate.lower()
CellKinds(cell) ==
    {k \in Range(TABLE_NAMES) :
        cell.t = "text" /\ lower(strip(cell.s)) = lower(TableNameText[k])}

\* the first candidate of TABLE_NAMES the cell equals
CellKind(cell) ==
    TABLE_NAMES[CHOOSE n \in 1..Len(TABLE_NAMES) :
        /\ TABLE_NAMES[n] \in CellKinds(cell)
        /\ \A m \in 1..(n - 1) : TABLE_NAMES[m] \notin CellKinds(cell)]

\* the table name in the row above the marker row i: the first cell, left to
\* right, that names a kind; "" is None
table_name_above(df, i) ==
    IF i = 1 THEN ""
    ELSE LET named == {c \in 1..Len(df[i - 1]) : CellKinds(df[i - 1][c]) # {}}
         IN IF named = {} THEN ""
            ELSE CellKind(df[i - 1][CHOOSE c \in named : \A d \in named : c <= d])

\* the first blank row at or after start, or one past the last row
RECURSIVE end_of_data(_, _)
end_of_data(df, e) ==
    IF e <= Len(df) /\ ~row_is_blank(df, e) THEN end_of_data(df, e + 1) ELSE e

\* DataFrame.dropna(how="all") on the rows of a block
dropna_all(rows) == SelectSeq(rows, LAMBDA r : \E c \in 1..Len(r) : ~isna(r[c]))

\* the block under marker row i: the marker row is its header
BlockA(df, i) ==
    [columns |-> df[i],
     rows |-> dropna_all(SubSeq(df, i + 1, end_of_data(df, i + 1) - 1))]

\* a row laid out under other column labels, NaN where it has no such label
Reindex(row, from, to) ==
    [j \in 1..Len(to) |->
        IF \E c \in 1..Len(from) : from[c] = to[j]
        THEN row[CHOOSE c \in 1..Len(from) : from[c] = to[j]]
        ELSE Empty]

\* mutant: the later block replaces the table of its kind
concat_replacing(t, block) == block

\* pd.concat([t, block], ignore_index=True) on frames with unique labels
concat(t, block) ==
    LET cols == t.columns \o SelectSeq(block.columns, LAMBDA l : l \notin Range(t.columns))
    IN [columns |-> cols,
        rows |-> [i \in 1..Len(t.rows) |-> Reindex(t.rows[i], t.columns, cols)]
                 \o [i \in 1..Len(block.rows) |-> Reindex(block.rows[i], block.columns, cols)]]

\* one turn of the loop over the rows, at row i; found is the dict tables
StepA(df, i, found) ==
    IF ~IsMarkerRow(df, i) THEN found
    ELSE LET table_name == table_name_above(df, i)
         IN IF table_name = "" THEN found
            ELSE IF table_name \in DOMAIN found
                 THEN [found EXCEPT ![table_name] = concat(found[table_name], BlockA(df, i))]
                 ELSE [k \in DOMAIN found \cup {table_name} |->
                          IF k = table_name THEN BlockA(df, i) ELSE found[k]]

RECURSIVE LoopA(_, _, _)
LoopA(df, i, found) ==
    IF i > Len(df) THEN found ELSE LoopA(df, i + 1, StepA(df, i, found))

extract_tables_from_sheet_program(df) == LoopA(df, 1, NoTables)

\* the prefixes of the column lookup
ContingencyPrefix == <<"c", "o", "n", "t", "i", "n", "g", "e", "n", "c", "y">>

ResultingPrefix == <<"r", "e", "s", "u", "l", "t", "i", "n", "g">>

ContingencyValuePrefix == <<"c", "o", "n", "t", "i", "n", "g", "e", "n", "c", "y", " ", "v", "a", "l", "u", "e">>

\* _find_col_by_prefix: the position of the first column whose label, trimmed
\* and lower-cased, starts with the prefix; 0 is None
find_col_by_prefix(columns, prefix) ==
    FirstOf({c \in 1..Len(columns) :
                /\ columns[c].t = "text"
                /\ StartsWith(lower(strip(columns[c].s)), lower(prefix))})

----------------------------------------------------------------------------
(* excel_logic.py: extract_tables_from_sheet, blocks under a header row *)

CellHas(cell, sub) == cell.t = "text" /\ Contains(lower(cell.s), sub)

\* rows with a text cell that contains "percent"
IsHeaderRow(df, i) == \E c \in 1..Len(df[i]) : CellHas(df[i][c], PercentText)

header_rows(df) == SelectSeq([i \in 1..Len(df) |-> i], LAMBDA i : IsHeaderRow(df, i))

percent_col(df, h) == FirstOf({c \in 1..Len(df[h]) : CellHas(df[h][c], PercentText)})

\* the elif branch: the column taken as percent_col is never the case column
case_col(df, h) ==
    FirstOf({c \in 1..Len(df[h]) : c # percent_col(df, h) /\ CellHas(df[h][c], CaseText)})

all_isna(df, idx) == \A c \in 1..Len(df[idx]) : isna(df[idx][c])

\* mutant: only a blank row ends the data, a header row is read as data
RECURSIVE last_data_row_blank(_, _, _)
last_data_row_blank(df, h, last) ==
    IF last <= Len(df) /\ ~all_isna(df, last)
    THEN last_data_row_blank(df, h, last + 1)
    ELSE last

\* the row the data of the block under header row h stops before
RECURSIVE last_data_row(_, _, _)
last_data_row(df, h, last) ==
    IF last <= Len(df) /\ ~all_isna(df, last) /\ ~(IsHeaderRow(df, last) /\ last # h)
    THEN last_data_row(df, h, last + 1)
    ELSE last

\* mutant: every column left of percent_col, filled or not
left_cols_all(df, h) ==
    SelectSeq([c \in 1..Len(df[h]) |-> c], LAMBDA c : c < percent_col(df, h))

\* the columns left of percent_col that are not NaN in the first data row
left_cols(df, h) ==
    SelectSeq([c \in 1..Len(df[h]) |-> c],
              LAMBDA c : c < percent_col(df, h) /\ ~isna(df[h + 1][c]))

\* one row of block_norm
NormRow(df, h, r) ==
    LET left == left_cols(df, h)
    IN [Contingency |-> astype_str(df[r][left[1]]),
        ResultingIssue |-> astype_str(df[r][left[2]]),
        ContingencyValue |-> IF Len(left) >= 3 THEN df[r][left[3]] ELSE Empty,
        PercentLoading |-> df[r][percent_col(df, h)],
        Case |-> IF case_col(df, h) # 0 THEN df[r][case_col(df, h)] ELSE Empty]

\* a block is skipped (continue) when this does not hold
BlockKept(df, h) ==
    /\ percent_col(df, h) # 0
    /\ h + 1 <= Len(df)
    /\ last_data_row(df, h, h + 1) > h + 1
    /\ Len(left_cols(df, h)) >= 2

block_norm(df, h) ==
    [r \in 1..(last_data_row(df, h, h + 1) - (h + 1)) |-> NormRow(df, h, h + r)]

\* mutant: the names are given to the blocks that are kept, a skipped block
\* takes none
extract_tables_from_sheet_dense(df) ==
    LET hs == SelectSeq(header_rows(df), LAMBDA h : BlockKept(df, h))
        kept == {n \in 1..Len(hs) : n <= Len(TABLE_NAMES)}
    IN [k \in {TABLE_NAMES[n] : n \in kept} |->
           block_norm(df, hs[CHOOSE n \in kept : TABLE_NAMES[n] = k])]

\* mutant: break instead of continue, the first block that is skipped ends
\* the loop
extract_tables_from_sheet_break(df) ==
    LET hs == header_rows(df)
        kept == {n \in 1..Len(hs) :
                    /\ n <= Len(TABLE_NAMES)
                    /\ \A m \in 1..n : BlockKept(df, hs[m])}
    IN [k \in {TABLE_NAMES[n] : n \in kept} |->
           block_norm(df, hs[CHOOSE n \in kept : TABLE_NAMES[n] = k])]

\* the loop over enumerate(header_rows): the block of index n (from 1) is
\* named TABLE_NAMES[n], blocks past the last name are not looked at
extract_tables_from_sheet(df) ==
    LET hs == header_rows(df)
        kept == {n \in 1..Len(hs) : n <= Len(TABLE_NAMES) /\ BlockKept(df, hs[n])}
    IN [k \in {TABLE_NAMES[n] : n \in kept} |->
           block_norm(df, hs[CHOOSE n \in kept : TABLE_NAMES[n] = k])]

----------------------------------------------------------------------------
(* inputs *)

Keys == {<<ContA, Overload>>, <<ContA, Undervoltage>>, <<ContB, Undervoltage>>}

\* the (Contingency Value, Percent Loading) cells of a row: numbers, a text
\* with a percent sign, a text that is no number, and empty cells
Readings ==
    {<<Num(10), Num(950)>>,
     <<Empty, Text(<<"9", "7", ".", "5", "%">>)>>,
     <<Num(10), Text(<<"n", "/", "a">>)>>,
     <<Empty, Empty>>}

Row(k, vp) ==
    [Contingency |-> k[1], ResultingIssue |-> k[2],
     ContingencyValue |-> vp[1], PercentLoading |-> vp[2], Case |-> Empty]

Rows == {Row(k, vp) : k \in Keys, vp \in Readings}

----------------------------------------------------------------------------
(* compare_tables on every pair of tables of at most MaxRows rows in all *)

Init ==
    /\ table1 \in SeqsUpTo(Rows, MaxRows)
    /\ table2 \in SeqsUpTo(Rows, MaxRows - Len(table1))
    /\ join_order \in JoinOrders
    /\ merged = <<>>
    /\ pc = "ready"
    /\ workbook_data = NoIndex
    /\ sheet_left = ""
    /\ sheet_right = ""
    /\ results = NoTables
    /\ NothingRead

CompareTables ==
    /\ pc = "ready"
    /\ merged' = compare_tables(table1, table2, "Left", "Right", join_order)
    /\ pc' = "done"
    /\ UNCHANGED <<table1, table2, join_order, workbook_data, sheet_left, sheet_right, results,
                   loadVars>>

Next == CompareTables

Spec == Init /\ [][Next]_vars

----------------------------------------------------------------------------
(* compare_sheet_pair on every index of two sheets *)

Sheets == {"S1", "S2"}

\* the sheet names a caller may pass: "S3" is no sheet of the workbook
SheetArgs == {"S1", "S2", "S3"}

RowA95 == Row(<<ContA, Overload>>, <<Num(10), Num(950)>>)

RowA975 == Row(<<ContA, Overload>>, <<Empty, Text(<<"9", "7", ".", "5", "%">>)>>)

RowBna == Row(<<ContB, Undervoltage>>, <<Num(10), Text(<<"n", "/", "a">>)>>)

\* an empty table, and a table with a repeated key and an unparseable percent
PairTables == {<<>>, <<RowA975, RowA95, RowBna>>}

KindMaps == UNION {[ks -> PairTables] : ks \in SUBSET Range(TABLE_NAMES)}

InitPair ==
    /\ workbook_data \in [Sheets -> KindMaps]
    /\ join_order \in JoinOrders
    /\ sheet_left = ""
    /\ sheet_right = ""
    /\ results = NoTables
    /\ pc = "idle"
    /\ table1 = <<>>
    /\ table2 = <<>>
    /\ merged = <<>>
    /\ NothingRead

\* mutant: the sheets are looked up with setdefault, a sheet that is not in
\* the index gets an empty entry there
CompareSheetPairInserting(left, right) ==
    /\ sheet_left' = left
    /\ sheet_right' = right
    /\ results' = compare_sheet_pair(workbook_data, left, right, join_order)
    /\ workbook_data' = [s \in DOMAIN workbook_data \cup {left, right} |->
                             SheetTables(workbook_data, s)]
    /\ pc' = "compared"
    /\ UNCHANGED <<join_order, table1, table2, merged, loadVars>>

CompareSheetPair(left, right) ==
    /\ sheet_left' = left
    /\ sheet_right' = right
    /\ results' = compare_sheet_pair(workbook_data, left, right, join_order)
    /\ pc' = "compared"
    /\ UNCHANGED <<workbook_data, join_order, table1, table2, merged, loadVars>>

NextPair == \E left \in SheetArgs, right \in SheetArgs : CompareSheetPair(left, right)

SpecPair == InitPair /\ [][NextPair]_vars

----------------------------------------------------------------------------
(* properties of compare_tables, checked under Spec *)

TableKeys(t) == {<<t[i].Contingency, t[i].ResultingIssue>> : i \in 1..Len(t)}

OutKeys(m) == {<<m[i].contingency, m[i].issue>> : i \in 1..Len(m)}

RowsOfKey(m, k) == {i \in 1..Len(m) : <<m[i].contingency, m[i].issue>> = k}

OccurrencesOf(t, k) == {i \in 1..Len(t) : <<t[i].Contingency, t[i].ResultingIssue>> = k}

\* C1: the keys of the output rows are exactly the union of the keys of the
\* left and the right table: no key is dropped, none is invented.
C1_OuterJoinComplete ==
    pc = "done" => OutKeys(merged) = TableKeys(table1) \cup TableKeys(table2)

C1_Witness ==
    /\ pc = "done"
    /\ TableKeys(table1) \ TableKeys(table2) # {}
    /\ TableKeys(table2) \ TableKeys(table1) # {}

\* C2: the status of every output row is decided by where its key occurs:
\* "both" iff in both tables, "only in left" iff in the left table alone,
\* "only in right" iff in the right table alone.
C2_StatusByKeyPresence ==
    pc = "done" =>
        \A i \in 1..Len(merged) :
            LET k == <<merged[i].contingency, merged[i].issue>>
                inL == k \in TableKeys(table1)
                inR == k \in TableKeys(table2)
            IN /\ merged[i].status = "both" <=> (inL /\ inR)
               /\ merged[i].status = "only in left" <=> (inL /\ ~inR)
               /\ merged[i].status = "only in right" <=> (~inL /\ inR)

\* C3: every output row has one of the three statuses, an "only in left"
\* row has value_2 and percent_2 absent, an "only in right" row has value_1
\* and percent_1 absent.
C3_StatusExhaustiveExclusive ==
    pc = "done" =>
        \A i \in 1..Len(merged) :
            /\ merged[i].status \in {"both", "only in left", "only in right"}
            /\ merged[i].status = "only in left" =>
                    isnan(merged[i].value_2) /\ isnan(merged[i].percent_2)
            /\ merged[i].status = "only in right" =>
                    isnan(merged[i].value_1) /\ isnan(merged[i].percent_1)

\* C4: delta_percent is percent_2 - percent_1 when both percents are present
\* and absent when either is absent; an absent percent is never a zero.
C4_DeltaPercent ==
    pc = "done" =>
        \A i \in 1..Len(merged) :
            IF isnan(merged[i].percent_1) \/ isnan(merged[i].percent_2)
            THEN isnan(merged[i].delta_percent)
            ELSE /\ ~isnan(merged[i].delta_percent)
                 /\ merged[i].delta_percent.x = merged[i].percent_2.x - merged[i].percent_1.x

C4_Witness ==
    /\ pc = "done"
    /\ \E i \in 1..Len(merged) :
            ~isnan(merged[i].delta_percent) /\ merged[i].delta_percent.x # 0
    /\ \E i \in 1..Len(merged) :
            isnan(merged[i].percent_2) /\ ~isnan(merged[i].percent_1)
                /\ isnan(merged[i].delta_percent)

\* C5: no input row is dropped: every left row and every right row gives its
\* value and percent to an output row of its key, and every left occurrence
\* of a key is paired with every right occurrence of that key.
C5_NoRowDropped ==
    pc = "done" =>
        /\ \A i \in 1..Len(table1) :
               \E j \in RowsOfKey(merged, <<table1[i].Contingency, table1[i].ResultingIssue>>) :
                   /\ merged[j].value_1 = conv(table1[i].ContingencyValue)
                   /\ merged[j].percent_1 = conv(table1[i].PercentLoading)
        /\ \A i \in 1..Len(table2) :
               \E j \in RowsOfKey(merged, <<table2[i].Contingency, table2[i].ResultingIssue>>) :
                   /\ merged[j].value_2 = conv(table2[i].ContingencyValue)
                   /\ merged[j].percent_2 = conv(table2[i].PercentLoading)
        /\ \A i \in 1..Len(table1) :
               \A n \in OccurrencesOf(table2, <<table1[i].Contingency, table1[i].ResultingIssue>>) :
                   \E j \in 1..Len(merged) :
                       /\ merged[j].value_1 = conv(table1[i].ContingencyValue)
                       /\ merged[j].percent_1 = conv(table1[i].PercentLoading)
                       /\ merged[j].value_2 = conv(table2[n].ContingencyValue)
                       /\ merged[j].percent_2 = conv(table2[n].PercentLoading)

C5_Witness ==
    /\ pc = "done"
    /\ \E i, n \in 1..Len(table1) :
           /\ i # n
           /\ table1[i].Contingency = table1[n].Contingency
           /\ table1[i].ResultingIssue = table1[n].ResultingIssue
           /\ conv(table1[i].PercentLoading) # conv(table1[n].PercentLoading)
           /\ OccurrencesOf(table2, <<table1[i].Contingency, table1[i].ResultingIssue>>) # {}
    /\ Len(merged) = 2

\* the explicit rank table of the three statuses
StatusRank(st) ==
    CASE st = "both" -> 0
      [] st = "only in left" -> 1
      [] st = "only in right" -> 2

\* C8: the output rows are ordered by status in the priority both, only in
\* left, only in right; within one status by delta_percent descending, the
\* rows with an absent delta after the rows with a present one.
C8_ResultOrdering ==
    pc = "done" =>
        \A i, j \in 1..Len(merged) :
            i < j =>
                /\ ({merged[i].status, merged[j].status}
                        \subseteq {"both", "only in left", "only in right"}
                    => StatusRank(merged[i].status) <= StatusRank(merged[j].status))
                /\ (merged[i].status = merged[j].status =>
                        /\ isnan(merged[i].delta_percent) => isnan(merged[j].delta_percent)
                        /\ (~isnan(merged[i].delta_percent) /\ ~isnan(merged[j].delta_percent))
                               => merged[i].delta_percent.x >= merged[j].delta_percent.x)

C8_Witness ==
    /\ pc = "done"
    /\ merged # Joined(table1, table2, "Left", "Right", join_order)
    /\ \E i, j \in 1..Len(merged) :
           /\ i < j
           /\ merged[i].status = "both" /\ merged[j].status = "both"
           /\ merged[i].delta_percent.x > merged[j].delta_percent.x

SameSortKey(a, b) == a.status = b.status /\ a.delta_percent = b.delta_percent

\* C9: the sort is stable: the rows that share one (status, delta_percent)
\* stand in the output in the order in which the outer join enumerated them.
C9_SortStable ==
    pc = "done" =>
        \A i \in 1..Len(merged) :
            SelectSeq(merged, LAMBDA r : SameSortKey(r, merged[i]))
                = SelectSeq(Joined(table1, table2, "Left", "Right", join_order),
                            LAMBDA r : SameSortKey(r, merged[i]))

C9_Witness ==
    /\ pc = "done"
    /\ merged # Joined(table1, table2, "Left", "Right", join_order)
    /\ \E i, j \in 1..Len(merged) :
           i < j /\ SameSortKey(merged[i], merged[j]) /\ merged[i] # merged[j]

NoRepeatedKey(t) ==
    \A i, j \in 1..Len(t) :
        i # j => <<t[i].Contingency, t[i].ResultingIssue>>
                    # <<t[j].Contingency, t[j].ResultingIssue>>

TheRow(t, k) == t[CHOOSE i \in OccurrencesOf(t, k) : TRUE]

\* C10: when neither table repeats a key, the output has exactly one row per
\* key of the union; the row of a key of both tables carries both sides'
\* values and percents, the row of a key of the left table alone has its
\* right fields and delta_percent absent.
C10_OneRowPerKey ==
    (pc = "done" /\ NoRepeatedKey(table1) /\ NoRepeatedKey(table2)) =>
        /\ Len(merged) = Cardinality(TableKeys(table1) \cup TableKeys(table2))
        /\ \A k \in TableKeys(table1) \cup TableKeys(table2) :
               /\ Cardinality(RowsOfKey(merged, k)) = 1
               /\ LET r == merged[CHOOSE i \in RowsOfKey(merged, k) : TRUE]
                  IN /\ k \in TableKeys(table1) =>
                            /\ r.value_1 = conv(TheRow(table1, k).ContingencyValue)
                            /\ r.percent_1 = conv(TheRow(table1, k).PercentLoading)
                     /\ k \in TableKeys(table2) =>
                            /\ r.value_2 = conv(TheRow(table2, k).ContingencyValue)
                            /\ r.percent_2 = conv(TheRow(table2, k).PercentLoading)
                     /\ k \notin TableKeys(table2) =>
                            /\ isnan(r.value_2) /\ isnan(r.percent_2)
                            /\ isnan(r.delta_percent)

\* left 95.0 and right "97.5%" on (A, Overload) give one row with delta 2.5;
\* (B, Undervoltage) is in the left table alone
C10_Witness ==
    /\ pc = "done"
    /\ NoRepeatedKey(table1) /\ NoRepeatedKey(table2)
    /\ Len(merged) = 2
    /\ \E i \in 1..Len(merged) :
           /\ merged[i].contingency = ContA /\ merged[i].issue = Overload
           /\ merged[i].percent_1 = Flt(950) /\ merged[i].percent_2 = Flt(975)
           /\ merged[i].delta_percent = Flt(25)
    /\ \E i \in 1..Len(merged) :
           /\ merged[i].contingency = ContB /\ merged[i].issue = Undervoltage
           /\ <<ContB, Undervoltage>> \notin TableKeys(table2)
           /\ merged[i].status = "only in left"

----------------------------------------------------------------------------
(* properties of compare_sheet_pair, checked under SpecPair *)

\* C6: comparing a sheet of the index with itself gives, for every kind of
\* the result, status "both" on every row and delta_percent = 0 on every row
\* with both percents present.
C6_SelfCompare ==
    (pc = "compared" /\ sheet_left = sheet_right /\ sheet_left \in DOMAIN workbook_data) =>
        \A k \in DOMAIN results :
            \A i \in 1..Len(results[k]) :
                /\ results[k][i].status = "both"
                /\ (~isnan(results[k][i].percent_1) /\ ~isnan(results[k][i].percent_2))
                       => results[k][i].delta_percent = Flt(0)

\* C7: the kinds of the result are exactly the kinds present on both the
\* left and the right sheet of the index.
C7_KindsOnBothSheets ==
    (pc = "compared" /\ sheet_left \in DOMAIN workbook_data
                    /\ sheet_right \in DOMAIN workbook_data) =>
        DOMAIN results = (DOMAIN workbook_data[sheet_left])
                            \cap (DOMAIN workbook_data[sheet_right])

C7_Witness ==
    /\ pc = "compared"
    /\ sheet_left \in DOMAIN workbook_data /\ sheet_right \in DOMAIN workbook_data
    /\ sheet_left # sheet_right
    /\ (DOMAIN workbook_data[sheet_left]) \ (DOMAIN workbook_data[sheet_right]) # {}
    /\ DOMAIN results # {}

----------------------------------------------------------------------------
(* the numeric conversion on every cell text of at most MaxTextLen characters *)

ConvAlphabet == {"9", "5", ".", "%", " ", "x"}

ConvCells == {Empty, Num(950)} \cup {Text(t) : t \in SeqsUpTo(ConvAlphabet, MaxTextLen)}

\* one row whose value and percent cells both hold the cell, compared
\* against an empty table
InitConv ==
    /\ table1 \in {<<Row(<<ContA, Overload>>, <<c, c>>)>> : c \in ConvCells}
    /\ table2 = <<>>
    /\ join_order \in JoinOrders
    /\ merged = <<>>
    /\ pc = "ready"
    /\ workbook_data = NoIndex
    /\ sheet_left = ""
    /\ sheet_right = ""
    /\ results = NoTables
    /\ NothingRead

SpecConv == InitConv /\ [][Next]_vars

StripTrailingPercent(s) == IF s # <<>> /\ Last(s) = "%" THEN Front(s) ELSE s

\* C12: converting a value or percent cell never fails: the result is the
\* decimal number read after trimming and stripping one trailing "%", or it
\* is absent; the row stays in the output with that field.
C12_ConversionNeverFails ==
    pc = "done" =>
        /\ Len(merged) = 1
        /\ \A f \in {merged[1].value_1, merged[1].percent_1} :
               LET c == table1[1].PercentLoading
               IN \/ isnan(f)
                  \/ c.t = "num" /\ f = Flt(c.n)
                  \/ c.t = "text" /\ f = ParseFloat(StripTrailingPercent(strip(c.s)))

----------------------------------------------------------------------------
(* extract_tables_from_sheet of both modules on every grid of at most       *)
(* MaxGridRows rows                                                         *)

\* number of rows of the sheet grid
MaxGridRows == 4

BlankRow == <<Empty, Empty, Empty>>

\* a row of blanks typed into the sheet
SpaceRow == <<Text(<<" ">>), Empty, Empty>>

KindRowACCA == <<Text(<<"A", "C", "C", "A">>), Empty, Empty>>

\* two kind names in one row, the first in another case and padded
KindRowDCwAC == <<Empty, Text(<<" ", "d", "c", "w", "a", "c", " ">>), Text(<<"A", "C", "C", "A">>)>>

\* the row over the data of a block: the marker of program.py in its first
\* cell, a text with "percent" for excel_logic.py in its last
MarkerRow == <<Text(<<" ", "C", "o", "n", "t", "i", "n", "g", "e", "n", "c", "y", " ", "E", "v", "e", "n", "t", "s", " ">>), Text(<<"R", "e", "s", "u", "l", "t", "i", "n", "g", " ", "I", "s", "s", "u", "e">>), Text(<<"P", "e", "r", "c", "e", "n", "t", " ", "L", "o", "a", "d", "i", "n", "g">>)>>

DataRow == <<Text(ContA), Text(Overload), Num(950)>>

\* a data row without a contingency
NoContingencyRow == <<Empty, Text(Overload), Num(975)>>

GridRows == {BlankRow, SpaceRow, KindRowACCA, KindRowDCwAC, MarkerRow, DataRow,
             NoContingencyRow}

InitExtract ==
    /\ grid \in SeqsUpTo(GridRows, MaxGridRows)
    /\ tables = NoTables
    /\ pc = "ready"
    /\ app = ""
    /\ raw_sheets = NoIndex
    /\ sheet_names = <<>>
    /\ console = <<>>
    /\ tabs = NoRows
    /\ table1 = <<>>
    /\ table2 = <<>>
    /\ merged = <<>>
    /\ join_order = "appearance"
    /\ workbook_data = NoIndex
    /\ sheet_left = ""
    /\ sheet_right = ""
    /\ results = NoTables

\* program.extract_tables_from_sheet(df), df read with dtype=str
ExtractProgram ==
    /\ pc = "ready"
    /\ tables' = extract_tables_from_sheet_program(ReadAsStr(grid))
    /\ pc' = "program"
    /\ UNCHANGED <<grid, app, raw_sheets, sheet_names, console, tabs, table1, table2, merged,
                   join_order, workbook_data, sheet_left, sheet_right, results>>

\* excel_logic.extract_tables_from_sheet(df)
ExtractExcelLogic ==
    /\ pc = "ready"
    /\ tables' = extract_tables_from_sheet(grid)
    /\ pc' = "excel_logic"
    /\ UNCHANGED <<grid, app, raw_sheets, sheet_names, console, tabs, table1, table2, merged,
                   join_order, workbook_data, sheet_left, sheet_right, results>>

NextExtract == ExtractProgram \/ ExtractExcelLogic

SpecExtract == InitExtract /\ [][NextExtract]_vars

----------------------------------------------------------------------------
(* properties of extract_tables_from_sheet, checked under SpecExtract *)

\* the grid as the running module reads it
GridRead == IF pc = "program" THEN ReadAsStr(grid) ELSE grid

\* the blocks located on the grid, as <<row of the header or marker, kind>>:
\* for program.py the marker rows with a kind in the row above, for
\* excel_logic.py the first header rows, one for each name of TABLE_NAMES
BlocksLocated ==
    IF pc = "program"
    THEN {<<i, table_name_above(GridRead, i)>> :
              i \in {j \in 1..Len(grid) :
                        IsMarkerRow(GridRead, j) /\ table_name_above(GridRead, j) # ""}}
    ELSE {<<header_rows(grid)[n], TABLE_NAMES[n]>> :
              n \in {m \in 1..Len(header_rows(grid)) : m <= Len(TABLE_NAMES)}}

\* the number of data rows under the header or marker row i
DataRowCount(i) ==
    IF pc = "program" THEN end_of_data(GridRead, i + 1) - (i + 1)
    ELSE last_data_row(grid, i, i + 1) - (i + 1)

TableRows(k) == IF pc = "program" THEN tables[k].rows ELSE tables[k]

\* C14: a block that is located on the sheet but has no data row still makes
\* its kind a key of the extracted tables, and a kind of which every block is
\* empty is mapped to an empty table.
C14_EmptyTableIsKept ==
    pc \in {"program", "excel_logic"} =>
        \A b \in BlocksLocated :
            DataRowCount(b[1]) = 0 =>
                /\ b[2] \in DOMAIN tables
                /\ (\A c \in BlocksLocated : c[2] = b[2] => DataRowCount(c[1]) = 0)
                       => TableRows(b[2]) = <<>>

\* a cell that holds no identifier: empty, or a text of blanks
BlankCell(cell) == cell.t = "empty" \/ (cell.t = "text" /\ strip(cell.s) = <<>>)

\* the rows of the grid under the header or marker row i that belong to it
DataRowsOf(i) == (i + 1)..(i + DataRowCount(i))

\* C17: every row of an extracted table has a contingency that is not empty
\* after trimming, and no data row of a block whose contingency cell is empty
\* or holds only blanks appears in the table of its kind.
C17_ContingencyRequired ==
    /\ pc = "excel_logic" =>
          /\ \A k \in DOMAIN tables : \A i \in 1..Len(tables[k]) :
                 strip(tables[k][i].Contingency) # <<>>
          /\ \A b \in BlocksLocated : \A r \in DataRowsOf(b[1]) :
                 (b[2] \in DOMAIN tables /\ BlankCell(grid[r][left_cols(grid, b[1])[1]]))
                    => NormRow(grid, b[1], r) \notin Range(tables[b[2]])
    /\ pc = "program" =>
          \A k \in DOMAIN tables : \A i \in 1..Len(tables[k].rows) :
              LET c_col == find_col_by_prefix(tables[k].columns, ContingencyPrefix)
              IN c_col # 0 => ~BlankCell(tables[k].rows[i][c_col])

\* the cell names the kind k: equal after trimming, whatever the case
NamesKind(cell, k) == cell.t = "text" /\ lower(strip(cell.s)) = lower(TableNameText[k])

\* row i is a marker row under a row whose first kind-naming cell, from the
\* left, names k
MarkerOfKind(df, i, k) ==
    /\ i >= 2
    /\ df[i][1].t = "text"
    /\ lower(strip(df[i][1].s)) = MarkerText
    /\ \E c \in 1..Len(df[i - 1]) :
           /\ NamesKind(df[i - 1][c], k)
           /\ \A d \in 1..(c - 1) : \A k2 \in Range(TABLE_NAMES) : ~NamesKind(df[i - 1][d], k2)

\* the first row after i that ends the data, for a given notion of an
\* empty row, or one past the grid
RowsEndAt(df, i, IsEmptyRow(_)) ==
    CHOOSE e \in (i + 1)..(Len(df) + 1) :
        /\ e = Len(df) + 1 \/ IsEmptyRow(df[e])
        /\ \A r \in (i + 1)..(e - 1) : ~IsEmptyRow(df[r])

FullyEmpty(row) == \A c \in 1..Len(row) : row[c].t = "empty"

EmptyOrBlanks(row) == \A c \in 1..Len(row) : BlankCell(row[c])

\* the number of data rows of the blocks of kind k whose marker is among the
\* first n rows
RECURSIVE RowsOfKindUpTo(_, _, _)
RowsOfKindUpTo(df, k, n) ==
    IF n = 0 THEN 0
    ELSE RowsOfKindUpTo(df, k, n - 1)
         + (IF MarkerOfKind(df, n, k) THEN RowsEndAt(df, n, EmptyOrBlanks) - (n + 1) ELSE 0)

\* C18 as stated: every marker row i with a kind named in the row above gives
\* a table of that kind whose rows are exactly the rows from i+1 up to the
\* first row after i of which every cell is empty, or to the end of the grid.
C18_BlockIsTable ==
    pc = "program" =>
        \A k \in Range(TABLE_NAMES) : \A i \in 1..Len(grid) :
            MarkerOfKind(GridRead, i, k) =>
                /\ k \in DOMAIN tables
                /\ tables[k].rows =
                       SubSeq(GridRead, i + 1, RowsEndAt(GridRead, i, FullyEmpty) - 1)

\* C18 amended: the data rows of the block of marker row i run up to the
\* first row after i of which every cell is empty or holds only blanks, and
\* the table of the kind is the data rows of all its blocks, in the order of
\* the blocks: the rows of one block alone when the kind has one block.
C18_BlockRowsConcatenated ==
    pc = "program" =>
        \A k \in Range(TABLE_NAMES) :
            /\ k \in DOMAIN tables <=> \E i \in 1..Len(grid) : MarkerOfKind(GridRead, i, k)
            /\ k \in DOMAIN tables =>
                   Len(tables[k].rows) = RowsOfKindUpTo(GridRead, k, Len(grid))
            /\ \A i \in 1..Len(grid) :
                   MarkerOfKind(GridRead, i, k) =>
                       \A r \in 1..(RowsEndAt(GridRead, i, EmptyOrBlanks) - (i + 1)) :
                           tables[k].rows[RowsOfKindUpTo(GridRead, k, i - 1) + r]
                               = GridRead[i + r]

\* a block with a data row whose data ends at a row of blanks
C18_Witness ==
    /\ pc = "program"
    /\ \E k \in Range(TABLE_NAMES) : \E i \in 1..Len(grid) :
           /\ MarkerOfKind(GridRead, i, k)
           /\ RowsEndAt(GridRead, i, EmptyOrBlanks) > i + 1
           /\ RowsEndAt(GridRead, i, EmptyOrBlanks) <= Len(grid)
           /\ ~FullyEmpty(grid[RowsEndAt(GridRead, i, EmptyOrBlanks)])

\* the grid without its rows a..b
Without(df, a, b) == SubSeq(df, 1, a - 1) \o SubSeq(df, b + 1, Len(df))

\* row i is a marker row of program.py without a kind in the row above
UnmatchedMarker(df, i) ==
    /\ df[i][1].t = "text"
    /\ lower(strip(df[i][1].s)) = MarkerText
    /\ \A k \in Range(TABLE_NAMES) : ~MarkerOfKind(df, i, k)

\* the header row h of excel_logic.py has a first data row in which at least
\* two cells left of the percent column are filled
UsableHeader(df, h) ==
    /\ h + 1 <= Len(df)
    /\ ~FullyEmpty(df[h + 1])
    /\ ~IsHeaderRow(df, h + 1)
    /\ Cardinality({c \in 1..(percent_col(df, h) - 1) : df[h + 1][c].t # "empty"}) >= 2

\* the header rows that are given a kind, as <<position, row>>
NamedHeaders ==
    {<<n, header_rows(grid)[n]>> :
        n \in {m \in 1..Len(header_rows(grid)) : m <= Len(TABLE_NAMES)}}

\* C19 as stated: with a block that is skipped, the tables are those of the
\* grid from which the rows of that block, its marker or header row and its
\* data rows, are taken away.
C19_AsIfAbsent ==
    /\ pc = "program" =>
          \A i \in 1..Len(grid) :
              UnmatchedMarker(GridRead, i) =>
                  tables = extract_tables_from_sheet_program(
                               Without(GridRead, i, RowsEndAt(GridRead, i, EmptyOrBlanks) - 1))
    /\ pc = "excel_logic" =>
          \A b \in NamedHeaders :
              ~UsableHeader(grid, b[2]) =>
                  tables = extract_tables_from_sheet(
                               Without(grid, b[2], b[2] + DataRowCount(b[2])))

\* C19 amended: a skipped block gives no table and stops nothing: the kinds
\* of program.py are those of the marker rows with a kind, each with all the
\* data rows of its blocks; in excel_logic.py every usable header row among
\* the first Len(TABLE_NAMES) still gives the table of its position, with its
\* own data rows, and a skipped header row keeps its position.
C19_SkipStopsNothing ==
    /\ pc = "program" =>
          \A k \in Range(TABLE_NAMES) :
              IF \E i \in 1..Len(grid) : MarkerOfKind(GridRead, i, k)
              THEN /\ k \in DOMAIN tables
                   /\ tables[k].columns \in {GridRead[i] : i \in 1..Len(grid)}
                   /\ Len(tables[k].rows) = RowsOfKindUpTo(GridRead, k, Len(grid))
              ELSE k \notin DOMAIN tables
    /\ pc = "excel_logic" =>
          /\ DOMAIN tables = {TABLE_NAMES[b[1]] : b \in {c \in NamedHeaders : UsableHeader(grid, c[2])}}
          /\ \A b \in NamedHeaders :
                 UsableHeader(grid, b[2]) =>
                     /\ Len(tables[TABLE_NAMES[b[1]]]) = DataRowCount(b[2])
                     /\ \A r \in 1..DataRowCount(b[2]) :
                            tables[TABLE_NAMES[b[1]]][r] = NormRow(grid, b[2], b[2] + r)

\* a header row that is skipped, above a usable header row that is extracted
C19_Witness ==
    /\ pc = "excel_logic"
    /\ \E b, c \in NamedHeaders :
           /\ b[1] < c[1]
           /\ ~UsableHeader(grid, b[2])
           /\ UsableHeader(grid, c[2])
           /\ TABLE_NAMES[c[1]] \in DOMAIN tables

----------------------------------------------------------------------------
(* program.py: compare_tables and compare_sheet_pair on tables that carry   *)
(* the header row of their block as column labels                           *)

\* table[col] with col = None raises KeyError: one of the two required
\* columns is not found by its prefix
RequiredColumnMissing(t) ==
    \/ find_col_by_prefix(t.columns, ContingencyPrefix) = 0
    \/ find_col_by_prefix(t.columns, ResultingPrefix) = 0

\* table.get(col): the cell of the column, None when there is no such column
GetCell(row, col) == IF col = 0 THEN Empty ELSE row[col]

\* the four columns compare_tables takes from a table, by prefix
Located(t) ==
    [i \in 1..Len(t.rows) |->
        [Contingency |->
             astype_str(t.rows[i][find_col_by_prefix(t.columns, ContingencyPrefix)]),
         ResultingIssue |->
             astype_str(t.rows[i][find_col_by_prefix(t.columns, ResultingPrefix)]),
         ContingencyValue |->
             GetCell(t.rows[i], find_col_by_prefix(t.columns, ContingencyValuePrefix)),
         PercentLoading |-> GetCell(t.rows[i], find_col_by_prefix(t.columns, PercentText)),
         Case |-> Empty]]

\* the outcome of a call: it raised, or it returned value
Raised == [raised |-> TRUE, value |-> <<>>]

Returned(v) == [raised |-> FALSE, value |-> v]

\* program.compare_tables: after the column lookup the frames, the merge, the
\* status and the sort are those of excel_logic.py (_conv tests the text
\* "nan" before float(), which reads it as NaN as well)
compare_tables_program(t1, t2, name1, name2, order) ==
    IF RequiredColumnMissing(t1) \/ RequiredColumnMissing(t2) THEN Raised
    ELSE Returned(compare_tables(Located(t1), Located(t2), name1, name2, order))

\* program.compare_sheet_pair: no try around compare_tables, the first
\* KeyError leaves the loop and the call
compare_sheet_pair_program(index, left, right, order) ==
    LET tables_left == SheetTables(index, left)
        tables_right == SheetTables(index, right)
        present == {k \in Range(TABLE_NAMES) :
                        k \in DOMAIN tables_left /\ k \in DOMAIN tables_right}
        diff(k) == compare_tables_program(tables_left[k], tables_right[k], left, right, order)
    IN IF \E k \in present : diff(k).raised THEN Raised
       ELSE Returned([k \in present |-> diff(k).value])

----------------------------------------------------------------------------
(* load_workbook, and the two windows: open_workbook and do_compare of       *)
(* gui/app.py (on excel_logic.py) and of gui.py (on program.py)              *)

\* df.head(40)
HeadRows == 40

head(df) == SubSeq(df, 1, IF Len(df) < HeadRows THEN Len(df) ELSE HeadRows)

\* the keys of the tables found on a sheet, in the order they were added:
\* excel_logic.py adds them in the order of TABLE_NAMES
KeysList(t) == SelectSeq(TABLE_NAMES, LAMBDA k : k \in DOMAIN t)

\* the lines excel_logic.load_workbook prints for the sheets names[1..n]
RECURSIVE SheetLines(_, _, _)
SheetLines(names, sheets, n) ==
    IF n = 0 THEN <<>>
    ELSE SheetLines(names, sheets, n - 1)
         \o <<[line |-> "DEBUG SHEET", sheet |-> names[n], shown |-> <<>>],
              [line |-> "head", sheet |-> names[n], shown |-> head(sheets[names[n]])],
              [line |-> "found tables", sheet |-> names[n],
               shown |-> KeysList(extract_tables_from_sheet(sheets[names[n]]))]>>

\* what load_workbook of the module prints: program.py prints nothing
Printed(module, file) ==
    IF module = "program" THEN <<>>
    ELSE <<[line |-> "Parsing workbook", sheet |-> "", shown |-> <<>>]>>
         \o SheetLines(file.names, file.sheets, Len(file.names))

\* mutant: a sheet without tables is left out of the index
load_workbook_found(module, file) ==
    IF ~file.readable THEN Raised
    ELSE LET parse(df) == IF module = "program"
                          THEN extract_tables_from_sheet_program(ReadAsStr(df))
                          ELSE extract_tables_from_sheet(df)
         IN Returned([sheet_name \in {n \in DOMAIN file.sheets :
                                         parse(file.sheets[n]) # NoTables} |->
                         parse(file.sheets[sheet_name])])

\* mutant: the tables dictionary is not renewed for each sheet, the tables of
\* the first sheet stay in the entries of the others
load_workbook_carrying(module, file) ==
    IF ~file.readable THEN Raised
    ELSE LET parse(df) == IF module = "program"
                          THEN extract_tables_from_sheet_program(ReadAsStr(df))
                          ELSE extract_tables_from_sheet(df)
             first == parse(file.sheets[file.names[1]])
         IN Returned([sheet_name \in DOMAIN file.sheets |->
                         LET own == parse(file.sheets[sheet_name])
                         IN [k \in DOMAIN first \cup DOMAIN own |->
                                IF k \in DOMAIN own THEN own[k] ELSE first[k]]])

\* load_workbook: read_excel reads every sheet or raises; then every sheet
\* gets an entry
load_workbook(module, file) ==
    IF ~file.readable THEN Raised
    ELSE Returned([sheet_name \in DOMAIN file.sheets |->
                      IF module = "program"
                      THEN extract_tables_from_sheet_program(ReadAsStr(file.sheets[sheet_name]))
                      ELSE extract_tables_from_sheet(file.sheets[sheet_name])])

\* the module behind each window
ModuleOf == [a \in {"gui/app.py", "gui.py"} |->
                IF a = "gui.py" THEN "program" ELSE "excel_logic"]

\* a header row without a column that starts with "resulting"
MarkerRowNoIssue == <<Text(<<"C", "o", "n", "t", "i", "n", "g", "e", "n", "c", "y", " ", "E", "v", "e", "n", "t", "s">>), Text(<<"I", "s", "s", "u", "e">>), Text(<<"P", "e", "r", "c", "e", "n", "t", " ", "L", "o", "a", "d", "i", "n", "g">>)>>

\* the sheets of the workbooks: a sheet with one block, a sheet whose only
\* block is skipped by either module, and a sheet with two blocks, the first
\* of them without an issue column
SheetGrids ==
    {<<KindRowACCA, MarkerRow, DataRow>>,
     <<MarkerRow, NoContingencyRow>>,
     <<KindRowACCA, MarkerRowNoIssue, DataRow, BlankRow, KindRowDCwAC, MarkerRow, DataRow>>}

SheetOrders == {<<"S1">>, <<"S1", "S2">>}

\* what the file dialog and the file give: no path, a file that cannot be
\* read, or a workbook
NoPath == [chosen |-> FALSE, readable |-> FALSE, names |-> <<>>, sheets |-> NoIndex]

Unreadable == [chosen |-> TRUE, readable |-> FALSE, names |-> <<>>, sheets |-> NoIndex]

Workbooks ==
    UNION {{[chosen |-> TRUE, readable |-> TRUE, names |-> ns, sheets |-> g] :
               g \in [Range(ns) -> SheetGrids]} : ns \in SheetOrders}

Files == {NoPath, Unreadable} \cup Workbooks

InitGui ==
    /\ app \in DOMAIN ModuleOf
    /\ join_order \in JoinOrders
    /\ workbook_data = NoIndex
    /\ sheet_names = <<>>
    /\ raw_sheets = NoIndex
    /\ console = <<>>
    /\ tabs = NoRows
    /\ sheet_left = ""
    /\ sheet_right = ""
    /\ results = NoTables
    /\ pc = "idle"
    /\ grid = <<>>
    /\ tables = NoTables
    /\ table1 = <<>>
    /\ table2 = <<>>
    /\ merged = <<>>

\* mutant: a failed load clears the workbook that was loaded before
OpenWorkbookClearing(file) ==
    /\ IF ~file.chosen
       THEN /\ pc' = "cancelled"
            /\ UNCHANGED <<workbook_data, sheet_names, raw_sheets, console,
                           sheet_left, sheet_right>>
       ELSE LET data == load_workbook(ModuleOf[app], file)
            IN IF data.raised
               THEN /\ pc' = "load failed"
                    /\ workbook_data' = NoIndex
                    /\ sheet_names' = <<>>
                    /\ UNCHANGED <<raw_sheets, console, sheet_left, sheet_right>>
               ELSE /\ pc' = "loaded"
                    /\ workbook_data' = data.value
                    /\ sheet_names' = file.names
                    /\ raw_sheets' = file.sheets
                    /\ console' = Printed(ModuleOf[app], file)
                    /\ sheet_left' = file.names[1]
                    /\ sheet_right' = file.names[IF Len(file.names) > 1 THEN 2 ELSE 1]
    /\ UNCHANGED <<app, join_order, results, grid, tables, table1, table2, merged, tabs>>

\* open_workbook: no path chosen returns; a load that raises shows the error
\* and returns; else the index and the sheet names are stored and
\* set_sheet_options selects the first two sheets
OpenWorkbook(file) ==
    /\ IF ~file.chosen
       THEN /\ pc' = "cancelled"
            /\ UNCHANGED <<workbook_data, sheet_names, raw_sheets, console,
                           sheet_left, sheet_right>>
       ELSE LET data == load_workbook(ModuleOf[app], file)
            IN IF data.raised
               THEN /\ pc' = "load failed"
                    /\ UNCHANGED <<workbook_data, sheet_names, raw_sheets, console,
                                   sheet_left, sheet_right>>
               ELSE /\ pc' = "loaded"
                    /\ workbook_data' = data.value
                    /\ sheet_names' = file.names
                    /\ raw_sheets' = file.sheets
                    /\ console' = Printed(ModuleOf[app], file)
                    /\ sheet_left' = file.names[1]
                    /\ sheet_right' = file.names[IF Len(file.names) > 1 THEN 2 ELSE 1]
    /\ UNCHANGED <<app, join_order, results, grid, tables, table1, table2, merged, tabs>>

\* dict.get(key): the table of the name, None when there is none
dict_get(d, key) ==
    IF key \in DOMAIN d THEN [none |-> FALSE, df |-> d[key]] ELSE [none |-> TRUE, df |-> <<>>]

\* fmt: f"{float(x):.2f}"; float() takes every float, NaN and the infinities
\* included, so the except branch is never taken on a result row
fmt(x) ==
    IF x.nan THEN <<"n", "a", "n">>
    ELSE IF x.inf > 0 THEN <<"i", "n", "f">>
    ELSE IF x.inf < 0 THEN <<"-", "i", "n", "f">>
    ELSE LET a == IF x.x < 0 THEN 0 - x.x ELSE x.x
         IN (IF x.x < 0 THEN <<"-">> ELSE <<>>)
                \o NatDigits(a \div 10) \o <<".", Digits[(a % 10) + 1], "0">>

\* the six values of a row of a tab
TreeValues(row) ==
    <<row.contingency, row.issue, fmt(row.percent_1), fmt(row.percent_2),
      fmt(row.delta_percent), row.status>>

\* mutant: the tree is not cleared, the rows are inserted after those shown
populate_tree_keeping(tree, got) ==
    IF got.none \/ got.df = <<>> THEN tree
    ELSE tree \o [i \in 1..Len(got.df) |-> TreeValues(got.df[i])]

\* _populate_tree: the tree is cleared; nothing more for None or an empty
\* frame; else one row is inserted for each row of the frame
populate_tree(tree, got) ==
    IF got.none \/ got.df = <<>> THEN <<>>
    ELSE [i \in 1..Len(got.df) |-> TreeValues(got.df[i])]

\* do_compare on the selected sheets: without a workbook or a selection a
\* warning; gui.py asks before comparing a sheet with itself; a comparison
\* that raises shows the error and leaves the tabs as they are; else every
\* tab is filled from the results
DoCompare(continue_anyway) ==
    /\ IF sheet_names = <<>> \/ sheet_left = "" \/ sheet_right = ""
       THEN pc' = "warned" /\ UNCHANGED <<results, tabs>>
       ELSE IF app = "gui.py" /\ sheet_left = sheet_right /\ ~continue_anyway
       THEN pc' = "declined" /\ UNCHANGED <<results, tabs>>
       ELSE LET comparisons ==
                    IF ModuleOf[app] = "program"
                    THEN compare_sheet_pair_program(workbook_data, sheet_left,
                                                    sheet_right, join_order)
                    ELSE Returned(compare_sheet_pair(workbook_data, sheet_left,
                                                     sheet_right, join_order))
            IN IF comparisons.raised
               THEN pc' = "comparison failed" /\ UNCHANGED <<results, tabs>>
               ELSE /\ pc' = "compared"
                    /\ results' = comparisons.value
                    /\ tabs' = [tname \in DOMAIN tabs |->
                                   populate_tree(tabs[tname],
                                                 dict_get(comparisons.value, tname))]
    /\ UNCHANGED <<workbook_data, sheet_names, raw_sheets, console, sheet_left,
                   sheet_right, app, join_order, grid, tables, table1, table2, merged>>

NextGui ==
    \/ \E file \in Files : OpenWorkbook(file)
    \/ \E continue_anyway \in BOOLEAN : DoCompare(continue_anyway)

SpecGui == InitGui /\ [][NextGui]_vars

----------------------------------------------------------------------------
(* properties of the windows, checked under SpecGui *)

\* the rows of the sheet that start a block the module skips: the marker
\* rows without a kind, the named header rows that are not usable
SkippedBlocks(module, df) ==
    IF module = "program"
    THEN {i \in 1..Len(df) : UnmatchedMarker(ReadAsStr(df), i)}
    ELSE {header_rows(df)[n] :
             n \in {m \in 1..Len(header_rows(df)) :
                       m <= Len(TABLE_NAMES) /\ ~UsableHeader(df, header_rows(df)[m])}}

\* the rows of the sheet that start a block the module makes a table of
RecognizedBlocks(module, df) ==
    IF module = "program"
    THEN {i \in 1..Len(df) : \E k \in Range(TABLE_NAMES) : MarkerOfKind(ReadAsStr(df), i, k)}
    ELSE {header_rows(df)[n] :
             n \in {m \in 1..Len(header_rows(df)) :
                       m <= Len(TABLE_NAMES) /\ UsableHeader(df, header_rows(df)[m])}}

\* C11: when do_compare of gui.py has compared two sheets, every kind that is
\* on both sheets with its contingency and issue columns found in both
\* tables is in the results, whatever columns the tables of the other kinds
\* lack: the comparison as a whole has not failed.
C11_MissingColumnIsolated ==
    (app = "gui.py" /\ pc \in {"compared", "comparison failed"}) =>
        \A k \in Range(TABLE_NAMES) :
            LET tables_left == SheetTables(workbook_data, sheet_left)
                tables_right == SheetTables(workbook_data, sheet_right)
            IN (/\ k \in DOMAIN tables_left
                /\ k \in DOMAIN tables_right
                /\ ~RequiredColumnMissing(tables_left[k])
                /\ ~RequiredColumnMissing(tables_right[k]))
                   => pc = "compared" /\ k \in DOMAIN results

\* C13: the index has one entry for each sheet of the workbook it was loaded
\* from, and a sheet on which no block is recognized is mapped to the empty
\* mapping.
C13_EverySheetIndexed ==
    /\ DOMAIN workbook_data = DOMAIN raw_sheets
    /\ \A sheet_name \in DOMAIN raw_sheets :
           RecognizedBlocks(ModuleOf[app], raw_sheets[sheet_name]) = {}
               => workbook_data[sheet_name] = NoTables

\* a workbook is loaded that has a sheet without tables beside one with tables
C13_Witness ==
    /\ pc = "loaded"
    /\ \E a, b \in DOMAIN workbook_data :
           workbook_data[a] = NoTables /\ workbook_data[b] # NoTables

\* C15: an open_workbook that is cancelled, or whose load raises, leaves the
\* workbook_data and the sheet_names of the window as they were.
C15_FailedOpenChangesNothing ==
    [][pc' \in {"cancelled", "load failed"} =>
          workbook_data' = workbook_data /\ sheet_names' = sheet_names]_vars

\* a load has failed while a workbook loaded before is still there
C15_Witness ==
    /\ pc = "load failed"
    /\ workbook_data # NoIndex
    /\ sheet_names # <<>>

\* C20: the lines printed by load_workbook report every block that was
\* skipped: as many lines report a skipped block as blocks were skipped on
\* the sheets of the workbook.
C20_SkipsReported ==
    Cardinality({i \in 1..Len(console) : console[i].line = "skipped block"})
        = Cardinality(UNION {{<<sheet_name, i>> :
                                  i \in SkippedBlocks(ModuleOf[app], raw_sheets[sheet_name])} :
                              sheet_name \in DOMAIN raw_sheets})

----------------------------------------------------------------------------
(* extract_tables_from_sheet of both modules on sheets of five columns that  *)
(* are laid out as at most MaxBlocks pieces, one under the other             *)

\* number of pieces of a sheet
MaxBlocks == 4

Blank5 == <<Empty, Empty, Empty, Empty, Empty>>

KindACCA5 == <<Text(<<"A", "C", "C", "A">>), Empty, Empty, Empty, Empty>>

KindDCwAC5 == <<Empty, Text(<<"D", "C", "w", "A", "C", " ">>), Empty, Empty, Empty>>

\* the row over the data: the marker of program.py in its first cell, the
\* "percent" and "case" cells excel_logic.py looks for
Header5 == <<Text(<<"C", "o", "n", "t", "i", "n", "g", "e", "n", "c", "y", " ", "E", "v", "e", "n", "t", "s">>), Text(<<"R", "e", "s", "u", "l", "t", "i", "n", "g", " ", "I", "s", "s", "u", "e">>), Text(<<"C", "o", "n", "t", "i", "n", "g", "e", "n", "c", "y", " ", "V", "a", "l", "u", "e">>), Text(<<"P", "e", "r", "c", "e", "n", "t", " ", "L", "o", "a", "d", "i", "n", "g">>), Text(<<"C", "a", "s", "e">>)>>

\* a header row that names the issue column otherwise
HeaderIssue5 == <<Text(<<"C", "o", "n", "t", "i", "n", "g", "e", "n", "c", "y", " ", "E", "v", "e", "n", "t", "s">>), Text(<<"I", "s", "s", "u", "e">>), Text(<<"C", "o", "n", "t", "i", "n", "g", "e", "n", "c", "y", " ", "V", "a", "l", "u", "e">>), Text(<<"P", "e", "r", "c", "e", "n", "t", " ", "L", "o", "a", "d", "i", "n", "g">>), Text(<<"C", "a", "s", "e">>)>>

\* data rows: all cells filled; no value and no case; the issue written one
\* column to the right; nothing but numbers
DataFull == <<Text(ContA), Text(Overload), Num(10), Num(950), Text(<<"x">>)>>

DataNoValue == <<Text(ContB), Text(Undervoltage), Empty, Text(<<"9", "7", ".", "5", "%">>), Empty>>

DataShifted == <<Text(ContB), Empty, Text(Overload), Num(975), Empty>>

DataNumbers == <<Empty, Empty, Num(10), Num(950), Empty>>

\* the pieces: three blocks with a kind row, one of them under the other
\* header row, a block without a kind row, a block whose first data row has
\* one filled cell left of the percent column, and a blank row
Pieces ==
    {<<KindACCA5, Header5, DataFull, DataNoValue>>,
     <<KindACCA5, HeaderIssue5, DataFull>>,
     <<KindDCwAC5, Header5, DataShifted>>,
     
     <<KindACCA5, Header5, DataNumbers>>,
     <<Blank5>>}

\* the pieces one under the other
RECURSIVE Stack(_)
Stack(ps) == IF ps = <<>> THEN <<>> ELSE Head(ps) \o Stack(Tail(ps))

InitBlocks ==
    /\ grid \in {Stack(ps) : ps \in SeqsUpTo(Pieces, MaxBlocks)}
    /\ tables = NoTables
    /\ pc = "ready"
    /\ app = ""
    /\ raw_sheets = NoIndex
    /\ sheet_names = <<>>
    /\ console = <<>>
    /\ tabs = NoRows
    /\ table1 = <<>>
    /\ table2 = <<>>
    /\ merged = <<>>
    /\ join_order = "appearance"
    /\ workbook_data = NoIndex
    /\ sheet_left = ""
    /\ sheet_right = ""
    /\ results = NoTables

SpecBlocks == InitBlocks /\ [][NextExtract]_vars

----------------------------------------------------------------------------
(* properties of the extraction, checked under SpecBlocks *)

\* the data rows of the blocks of kind k whose marker row is among the first
\* n rows, block after block from the top, each row with the header row of
\* its block
RECURSIVE RowsOfBlocks(_, _, _)
RowsOfBlocks(df, k, n) ==
    IF n = 0 THEN <<>>
    ELSE RowsOfBlocks(df, k, n - 1)
         \o (IF MarkerOfKind(df, n, k)
             THEN [r \in 1..(RowsEndAt(df, n, EmptyOrBlanks) - (n + 1)) |->
                      [header |-> df[n], row |-> df[n + r]]]
             ELSE <<>>)

\* C21: the table program.py extracts for a kind is the data rows of all the
\* blocks of that kind, block after block in the order of the sheet, each
\* block's rows in their order: row for row, every cell stands under the
\* label it had in the header row of its block, and under the labels of the
\* other blocks there is nothing.
C21_BlocksConcatenated ==
    pc = "program" =>
        \A k \in DOMAIN tables :
            LET expected == RowsOfBlocks(GridRead, k, Len(grid))
                t == tables[k]
            IN /\ Len(t.rows) = Len(expected)
               /\ \A i \in 1..Len(expected) : \A j \in 1..Len(t.columns) :
                      IF t.columns[j] \in Range(expected[i].header)
                      THEN \E c \in 1..Len(expected[i].header) :
                              /\ expected[i].header[c] = t.columns[j]
                              /\ t.rows[i][j] = expected[i].row[c]
                      ELSE t.rows[i][j] = Empty
               /\ \A i \in 1..Len(expected) :
                      Range(expected[i].header) \subseteq Range(t.columns)

\* a kind with two blocks, under different header rows, that both have data
\* rows
C21_Witness ==
    /\ pc = "program"
    /\ \E k \in DOMAIN tables : \E i, j \in 1..Len(grid) :
           /\ i < j
           /\ grid[i] # grid[j]
           /\ MarkerOfKind(GridRead, i, k)
           /\ MarkerOfKind(GridRead, j, k)
           /\ RowsEndAt(GridRead, i, EmptyOrBlanks) > i + 1
           /\ RowsEndAt(GridRead, i, EmptyOrBlanks) < j
           /\ RowsEndAt(GridRead, j, EmptyOrBlanks) > j + 1

\* row i holds a text cell that contains "percent", whatever the case
HasPercentCell(i) ==
    \E c \in 1..Len(grid[i]) :
        grid[i][c].t = "text" /\ Contains(lower(grid[i][c].s), PercentText)

\* the place of row i among the rows with a percent cell, from 1
PlaceOf(i) == Cardinality({j \in 1..i : HasPercentCell(j)})

\* the table stored under name is made of the rows under row h
MadeFrom(name, h) ==
    /\ UsableHeader(grid, h)
    /\ Len(tables[name]) >= 1
    /\ h + Len(tables[name]) <= Len(grid)
    /\ \A r \in 1..Len(tables[name]) : tables[name][r] = NormRow(grid, h, h + r)

\* C22: the table excel_logic.py stores under the k-th name of TABLE_NAMES is
\* made from the k-th row, from the top, that holds a percent cell, the rows
\* whose block is skipped counted as well; the rows with a percent cell past
\* the last name give no table.
C22_KindByPosition ==
    pc = "excel_logic" =>
        \A n \in 1..Len(TABLE_NAMES) :
            TABLE_NAMES[n] \in DOMAIN tables =>
                \E h \in 1..Len(grid) :
                    /\ HasPercentCell(h)
                    /\ PlaceOf(h) = n
                    /\ MadeFrom(TABLE_NAMES[n], h)

\* more header rows than names, a skipped block among the named ones, and
\* a table stored for a header row below the skipped one
C22_Witness ==
    /\ pc = "excel_logic"
    /\ \E h \in 1..Len(grid) :
           HasPercentCell(h) /\ PlaceOf(h) > Len(TABLE_NAMES) /\ UsableHeader(grid, h)
    /\ \E b, c \in NamedHeaders :
           /\ b[1] < c[1]
           /\ ~UsableHeader(grid, b[2])
           /\ TABLE_NAMES[b[1]] \notin DOMAIN tables
           /\ TABLE_NAMES[c[1]] \in DOMAIN tables

\* the first row after h that is empty in every cell or holds a percent
\* cell, or one past the grid
BlockEnd(h) ==
    CHOOSE e \in (h + 1)..(Len(grid) + 1) :
        /\ e = Len(grid) + 1 \/ FullyEmpty(grid[e]) \/ HasPercentCell(e)
        /\ \A r \in (h + 1)..(e - 1) : ~FullyEmpty(grid[r]) /\ ~HasPercentCell(r)

\* the first column of row h that holds a percent cell
PercentColumn(h) ==
    CHOOSE p \in 1..Len(grid[h]) :
        /\ grid[h][p].t = "text" /\ Contains(lower(grid[h][p].s), PercentText)
        /\ \A c \in 1..(p - 1) :
               ~(grid[h][c].t = "text" /\ Contains(lower(grid[h][c].s), PercentText))

\* C23: the table of the block under header row h has one row for each of
\* the rows h+1 .. e-1, in their order, e being the first row after h that is
\* fully empty or another header row, or the end of the grid.
C23_BlockExtent ==
    pc = "excel_logic" =>
        \A b \in NamedHeaders :
            TABLE_NAMES[b[1]] \in DOMAIN tables =>
                LET t == tables[TABLE_NAMES[b[1]]]
                    h == b[2]
                IN /\ Len(t) = BlockEnd(h) - (h + 1)
                   /\ \A r \in 1..Len(t) :
                          t[r].PercentLoading = grid[h + r][PercentColumn(h)]

\* one block that ends at the header row of the next, one that ends at a
\* blank row
C23_Witness ==
    /\ pc = "excel_logic"
    /\ \E b, c \in NamedHeaders :
           /\ TABLE_NAMES[b[1]] \in DOMAIN tables
           /\ TABLE_NAMES[c[1]] \in DOMAIN tables
           /\ BlockEnd(b[2]) <= Len(grid) /\ HasPercentCell(BlockEnd(b[2]))
           /\ BlockEnd(c[2]) <= Len(grid) /\ FullyEmpty(grid[BlockEnd(c[2])])

\* the columns left of the percent column that are filled in the first data
\* row under h
FilledLeft(h) == {c \in 1..(PercentColumn(h) - 1) : grid[h + 1][c].t # "empty"}

\* the n-th column of a set of columns, from the left
NthOf(cols, n) == CHOOSE c \in cols : Cardinality({d \in cols : d <= c}) = n

\* C24: in every row of the table of the block under header row h the
\* contingency is the cell of the first column left of the percent column
\* that is filled in the first data row, the issue the cell of the second,
\* the value the cell of the third, absent when there are two; with fewer
\* than two such columns the block gives no table.
C24_ColumnsByPosition ==
    pc = "excel_logic" =>
        \A b \in NamedHeaders :
            LET h == b[2]
                name == TABLE_NAMES[b[1]]
            IN IF name \in DOMAIN tables
               THEN /\ Cardinality(FilledLeft(h)) >= 2
                    /\ \A r \in 1..Len(tables[name]) :
                           /\ tables[name][r].Contingency
                                  = astype_str(grid[h + r][NthOf(FilledLeft(h), 1)])
                           /\ tables[name][r].ResultingIssue
                                  = astype_str(grid[h + r][NthOf(FilledLeft(h), 2)])
                           /\ tables[name][r].ContingencyValue
                                  = IF Cardinality(FilledLeft(h)) >= 3
                                    THEN grid[h + r][NthOf(FilledLeft(h), 3)]
                                    ELSE Empty
               ELSE h + 1 <= Len(grid) /\ BlockEnd(h) > h + 1
                        => Cardinality(FilledLeft(h)) < 2

\* a table bound to three filled columns, a table whose issue is not in the
\* second column, and a block skipped for want of two filled columns
C24_Witness ==
    /\ pc = "excel_logic"
    /\ \E a, b, c \in NamedHeaders :
           /\ TABLE_NAMES[a[1]] \in DOMAIN tables
           /\ Cardinality(FilledLeft(a[2])) >= 3
           /\ TABLE_NAMES[b[1]] \in DOMAIN tables
           /\ Cardinality(FilledLeft(b[2])) = 2
           /\ NthOf(FilledLeft(b[2]), 2) > 2
           /\ TABLE_NAMES[c[1]] \notin DOMAIN tables
           /\ c[2] + 1 <= Len(grid)
           /\ BlockEnd(c[2]) > c[2] + 1

-----------------------------------------------------------------------------
(* program.compare_tables on tables whose header cells come in any order *)

\* the orders of the four header cells program.compare_tables looks up
ColumnOrders == {p \in [1..4 -> 1..4] : \A i, j \in 1..4 : p[i] = p[j] => i = j}

\* two data rows of one key as read with dtype=str, the cells in the order
\* of Header5
ColumnRows ==
    {ReadAsStr(<<DataFull>>)[1],
     <<Text(ContA), Text(Overload), Text(<<"1">>), Text(<<"9", "7", ".", "5", "%">>), Empty>>}

\* a table of one row, its columns in order p
ColumnsTable(p, row) ==
    [columns |-> [j \in 1..4 |-> Header5[p[j]]],
     rows |-> <<[j \in 1..4 |-> row[p[j]]]>>]

InitCols ==
    /\ \E p \in ColumnOrders :
           /\ table1 \in {ColumnsTable(p, row) : row \in ColumnRows}
           /\ table2 \in {ColumnsTable(p, row) : row \in ColumnRows}
    /\ join_order \in JoinOrders
    /\ merged = <<>>
    /\ pc = "ready"
    /\ workbook_data = NoIndex
    /\ sheet_left = ""
    /\ sheet_right = ""
    /\ results = NoTables
    /\ NothingRead

CompareTablesProgram ==
    /\ pc = "ready"
    /\ LET out == compare_tables_program(table1, table2, "Left", "Right", join_order)
       IN /\ merged' = out.value
          /\ pc' = IF out.raised THEN "raised" ELSE "done"
    /\ UNCHANGED <<table1, table2, join_order, workbook_data, sheet_left, sheet_right, results,
                   loadVars>>

NextCols == CompareTablesProgram

SpecCols == InitCols /\ [][NextCols]_vars

LabelStarts(cell, prefix) == cell.t = "text" /\ StartsWith(lower(strip(cell.s)), prefix)

\* the column whose label starts with "contingency value"
ValueHeader(columns) ==
    CHOOSE c \in 1..Len(columns) : LabelStarts(columns[c], ContingencyValuePrefix)

\* the column whose label starts with "contingency" and not with
\* "contingency value"
ContingencyHeader(columns) ==
    CHOOSE c \in 1..Len(columns) :
        /\ LabelStarts(columns[c], ContingencyPrefix)
        /\ ~LabelStarts(columns[c], ContingencyValuePrefix)

-----------------------------------------------------------------------------
(* properties of the index and of the comparison windows, under SpecGui *)

\* the workbook that holds the sheet alone
SheetAlone(sheet_name) ==
    [chosen |-> TRUE, readable |-> TRUE, names |-> <<sheet_name>>,
     sheets |-> [n \in {sheet_name} |-> raw_sheets[sheet_name]]]

\* C26: the entry of a sheet in the index is made from the grid of that sheet
\* alone: it is the entry the sheet gets in a workbook without the other
\* sheets, whatever the other sheets are and wherever they stand.
C26_SheetIndependence ==
    \A sheet_name \in DOMAIN workbook_data :
        workbook_data[sheet_name]
            = load_workbook(ModuleOf[app], SheetAlone(sheet_name)).value[sheet_name]

\* a workbook of two sheets is loaded, with tables on the first sheet that
\* the second sheet does not have
C26_Witness ==
    /\ pc = "loaded"
    /\ Len(sheet_names) = 2
    /\ \E k \in DOMAIN workbook_data[sheet_names[1]] :
           k \notin DOMAIN workbook_data[sheet_names[2]]

-----------------------------------------------------------------------------
(* properties of compare_sheet_pair called again and again, under SpecPair *)

\* C27: a call of compare_sheet_pair leaves the index and every table in it
\* as they were, whatever calls came before, and what it returns is made from
\* the index and the two sheet names alone.
C27_CompareReadsOnly ==
    [][pc' = "compared" =>
          /\ workbook_data' = workbook_data
          /\ results' = compare_sheet_pair(workbook_data', sheet_left', sheet_right',
                                           join_order')]_vars

\* a comparison has returned tables from an index that holds tables
C27_Witness ==
    /\ pc = "compared"
    /\ results # NoTables
    /\ \E k \in DOMAIN results : results[k] # <<>>

-----------------------------------------------------------------------------
(* compare_tables on tables whose percent cells may hold an infinity *)

InfinityReadings ==
    {<<Num(10), Num(950)>>,
     <<Num(10), Text(<<"i", "n", "f">>)>>,
     <<Empty, Empty>>}

InfinityRows ==
    {Row(k, vp) : k \in {<<ContA, Overload>>, <<ContB, Overload>>}, vp \in InfinityReadings}

InitInfinity ==
    /\ table1 \in SeqsUpTo(InfinityRows, MaxRows)
    /\ table2 \in SeqsUpTo(InfinityRows, MaxRows - Len(table1))
    /\ join_order \in JoinOrders
    /\ merged = <<>>
    /\ pc = "ready"
    /\ workbook_data = NoIndex
    /\ sheet_left = ""
    /\ sheet_right = ""
    /\ results = NoTables
    /\ NothingRead

SpecInfinity == InitInfinity /\ [][Next]_vars

\* C28: in every row compare_tables returns, delta_percent is present exactly
\* when the status is "both"; every row of another status has an absent
\* delta_percent.
C28_DeltaIffBoth ==
    pc = "done" =>
        \A i \in 1..Len(merged) :
            ~isnan(merged[i].delta_percent) <=> merged[i].status = "both"

\* C29: compare_sheet_pair called with a left or right sheet name that is no
\* key of the index does not raise, in either module: it returns the empty
\* mapping, as it does for a sheet without tables.
C29_UnknownSheetIsEmpty ==
    (pc = "compared" /\ (sheet_left \notin DOMAIN workbook_data
                           \/ sheet_right \notin DOMAIN workbook_data)) =>
        /\ results = NoTables
        /\ compare_sheet_pair_program(workbook_data, sheet_left, sheet_right, join_order)
               = Returned(NoTables)

\* a sheet with tables has been compared with a sheet that is not in the index
C29_Witness ==
    /\ pc = "compared"
    /\ sheet_left \notin DOMAIN workbook_data
    /\ sheet_right \in DOMAIN workbook_data
    /\ \E k \in DOMAIN workbook_data[sheet_right] : workbook_data[sheet_right][k] # <<>>
    /\ results = NoTables

-----------------------------------------------------------------------------
(* the tabs of the windows, under SpecGui *)

\* the tab shows the rows of the frame, one for one and in their order
ShowsRowsOf(tree, df) ==
    /\ Len(tree) = Len(df)
    /\ \A i \in 1..Len(df) :
           /\ tree[i][1] = df[i].contingency
           /\ tree[i][2] = df[i].issue
           /\ tree[i][6] = df[i].status
           /\ (tree[i][5] = <<"n", "a", "n">>) <=> isnan(df[i].delta_percent)

\* C30: when a do_compare has gone through, the tab of every kind shows the
\* rows of that kind of the result just computed and nothing else, and the
\* tab of a kind that is not in the result is empty; when the comparison
\* raises, every tab keeps the rows it showed.
C30_NoStaleRows ==
    [][/\ pc' = "compared" =>
              \A tname \in Range(TABLE_NAMES) :
                  IF tname \in DOMAIN results'
                  THEN ShowsRowsOf(tabs'[tname], results'[tname])
                  ELSE tabs'[tname] = <<>>
       /\ pc' = "comparison failed" => tabs' = tabs]_vars

\* a comparison has filled a tab and left the tab of a kind that is not in
\* its result empty
C30_Witness ==
    /\ pc = "compared"
    /\ \E tname \in Range(TABLE_NAMES) : tabs[tname] # <<>>
    /\ \E tname \in Range(TABLE_NAMES) : tname \notin DOMAIN results /\ tabs[tname] = <<>>

====
